---- MODULE Spec2Model ----
(***************************************************************************)
(* Dependency closure engine of find_unblocked_orphans: the package index, *)
(* the dependent resolver (find_dependent_packages), the bounded closure   *)
(* walk (recursive_deps / build_dep_map / allow_check) and the two         *)
(* pagure_worker threads that drain pagureinfo_queue.                      *)
(*                                                                         *)
(* Strings that the code takes apart (provides, file paths) are sequences  *)
(* of one-character strings; package and source names are plain strings    *)
(* ordered by NameOrder.                                                   *)
(***************************************************************************)
EXTENDS Integers, Sequences, FiniteSets, TLC

\* ------------------------------------------------------------------------
\* Bounds of the model
\* ------------------------------------------------------------------------

\* number of requirement edges a snapshot may contain
MaxEdges == 3

\* number of requested roots
MaxRoots == 2

\* max_deps ranges over -1 .. MaxMaxDeps
MaxMaxDeps == 2

\* most DepChecker instances constructed over one snapshot
MaxInstances == 2

\* most by_src / by_bin reads a client makes on one instance before the walk
MaxAccesses == 2

\* most recursive_deps calls made on one instance
MaxCalls == 2

\* ------------------------------------------------------------------------
\* String helpers (str.split, str.replace, os.path.normpath)
\* ------------------------------------------------------------------------

RECURSIVE SkipSpaces(_)
SkipSpaces(s) ==
    IF s # <<>> /\ Head(s) = " " THEN SkipSpaces(Tail(s)) ELSE s

RECURSIVE TakeWord(_)
TakeWord(s) ==
    IF s = <<>> \/ Head(s) = " " THEN <<>>
    ELSE <<Head(s)>> \o TakeWord(Tail(s))

\* base_provide, *_ = prov.split()
FirstWord(s) == TakeWord(SkipSpaces(s))

\* str.replace(old, new) for single characters
Replace(s, old, new) == [i \in 1..Len(s) |-> IF s[i] = old THEN new ELSE s[i]]

\* path.split("/")
RECURSIVE SplitSlash(_, _)
SplitSlash(s, cur) ==
    IF s = <<>> THEN <<cur>>
    ELSE IF Head(s) = "/" THEN <<cur>> \o SplitSlash(Tail(s), <<>>)
    ELSE SplitSlash(Tail(s), Append(cur, Head(s)))

\* the component loop of posixpath.normpath
RECURSIVE NormComps(_, _, _)
NormComps(comps, acc, initial) ==
    IF comps = <<>> THEN acc
    ELSE LET c == Head(comps)
             rest == Tail(comps)
             dotdot == <<".", ".">>
         IN  IF c = <<>> \/ c = <<".">> THEN NormComps(rest, acc, initial)
             ELSE IF \/ c # dotdot
                     \/ (initial = 0 /\ acc = <<>>)
                     \/ (acc # <<>> /\ acc[Len(acc)] = dotdot)
                  THEN NormComps(rest, Append(acc, c), initial)
             ELSE IF acc # <<>>
                  THEN NormComps(rest, SubSeq(acc, 1, Len(acc) - 1), initial)
             ELSE NormComps(rest, acc, initial)

\* "/".join(comps)
RECURSIVE JoinSlash(_)
JoinSlash(comps) ==
    IF comps = <<>> THEN <<>>
    ELSE IF Len(comps) = 1 THEN Head(comps)
    ELSE Head(comps) \o <<"/">> \o JoinSlash(Tail(comps))

StartsWith(s, n) == Len(s) >= n /\ \A i \in 1..n : s[i] = "/"

\* os.path.normpath(path)
NormPath(path) ==
    IF path = <<>> THEN <<".">>
    ELSE LET initial == IF StartsWith(path, 2) /\ ~StartsWith(path, 3) THEN 2
                        ELSE IF StartsWith(path, 1) THEN 1 ELSE 0
             body == JoinSlash(NormComps(SplitSlash(path, <<>>), <<>>, initial))
             res == [i \in 1..initial |-> "/"] \o body
         IN  IF res = <<>> THEN <<".">> ELSE res

\* file_provides entry: os.path.normpath(f'//{fn}')
FileProvide(fn) == NormPath(<<"/", "/">> \o fn)

\* base provide of a provide string, with the bracket workaround for paths
BaseProvide(prov) ==
    LET b == FirstWord(prov)
    IN  IF b[1] = "/" THEN Replace(Replace(b, "[", "?"), "]", "?") ELSE b

\* dnf matches a pattern against a dependency name; "?" is a one-character
\* wildcard
GlobMatch(pat, s) ==
    /\ Len(pat) = Len(s)
    /\ \A i \in 1..Len(pat) : pat[i] = "?" \/ pat[i] = s[i]

\* ------------------------------------------------------------------------
\* Generic helpers for lists and dicts
\* ------------------------------------------------------------------------

Range(f) == {f[i] : i \in DOMAIN f}

Max(x, y) == IF x >= y THEN x ELSE y

\* sorted(S) for a set of integers
RECURSIVE SortedSeq(_)
SortedSeq(S) ==
    IF S = {} THEN <<>>
    ELSE LET m == CHOOSE x \in S : \A y \in S : x <= y
         IN  <<m>> \o SortedSeq(S \ {m})

\* every ordering of the members of a finite set (iteration order of a
\* Python set of str is not fixed)
Orderings(S) ==
    {q \in [1..Cardinality(S) -> S] : \A i, j \in DOMAIN q : i # j => q[i] # q[j]}

\* d.setdefault(k, set()).add(v)
SetDefaultAdd(d, k, v) ==
    IF k \in DOMAIN d THEN [d EXCEPT ![k] = @ \cup {v}] ELSE d @@ (k :> {v})

\* ------------------------------------------------------------------------
\* The repository snapshot (self.dnfquery)
\* ------------------------------------------------------------------------

\* sort order of the names used (str comparison)
NameOrder == <<"a", "ax", "b", "c", "cx", "d", "g">>

Rank(n) == CHOOSE i \in DOMAIN NameOrder : NameOrder[i] = n

sa1 == <<"s", "a", " ", "=", " ", "1">>
sa == <<"s", "a">>
sb == <<"s", "b">>
sc == <<"s", "c">>
sh == <<"s", "h">>
fbr == <<"/", "f", "[", "1", "]">>
fee == <<"/", "/", "e">>
fe == <<"/", "e">>

SrcPkg(n) ==
    [name |-> n, version |-> "1", release |-> "1", arch |-> "src",
     sourcerpm |-> <<>>, provides |-> <<>>, files |-> <<>>, requires |-> {}]

BinPkg(n, s, provs, fls) ==
    [name |-> n, version |-> "1", release |-> "1", arch |-> "x86_64",
     sourcerpm |-> <<s, "1", "1">>, provides |-> provs, files |-> fls,
     requires |-> {}]

\* packages of the snapshot without their requires, in package sort order
\* (name, then arch): sources a, b, c with binaries, source d without any
Universe ==
    << SrcPkg("a"),
       BinPkg("a", "a", <<sa1, sh>>, <<>>),
       BinPkg("ax", "a", <<>>, <<fbr, fee>>),
       SrcPkg("b"),
       BinPkg("b", "b", <<sb, sh>>, <<>>),
       SrcPkg("c"),
       BinPkg("cx", "c", <<sc>>, <<>>),
       SrcPkg("d") >>

PkgIds == DOMAIN Universe

\* requirement edges a snapshot may contain: <<package, required name>>
PossibleRequires ==
    { <<5, sa>>, <<7, sa>>, <<8, sa>>, <<7, sb>>, <<2, sb>>, <<3, sa>>,
      <<7, sh>>, <<5, fbr>>, <<1, sa>>, <<5, fe>>, <<2, sc>> }

WithRequires(E) ==
    [p \in PkgIds |-> [Universe[p] EXCEPT !.requires = {e[2] : e \in {x \in E : x[1] = p}}]]

\* names that may be requested as roots; "g" has no package at all
RootNames == {"a", "b", "g"}

\* dnfquery.filter(provides=pat): packages with a provide or a file matching
ProvidesQuery(q, pat) ==
    {p \in DOMAIN q :
        \/ \E i \in DOMAIN q[p].provides : GlobMatch(pat, FirstWord(q[p].provides[i]))
        \/ \E i \in DOMAIN q[p].files : GlobMatch(pat, FileProvide(q[p].files[i]))}

\* dnfquery.filter(requires=pat)
RequiresQuery(q, pat) ==
    {p \in DOMAIN q : \E r \in q[p].requires : GlobMatch(pat, r)}

\* a lookup of the source by name alone
srpm_nvr_filter_name_only(q, p) ==
    {s \in DOMAIN q : q[s].arch = "src" /\ q[s].name = q[p].sourcerpm[1]}

\* query.filter(name=name, version=version, release=release, arch='src')
srpm_nvr_filter(q, p) ==
    LET nvr == q[p].sourcerpm
    IN  {s \in DOMAIN q : /\ q[s].arch = "src"
                          /\ q[s].name = nvr[1]
                          /\ q[s].version = nvr[2]
                          /\ q[s].release = nvr[3]}

\* srpm(package) / srpm_nvr_object: the first src package with the NVR of
\* sourcerpm
srpm(q, p) == SortedSeq(srpm_nvr_filter(q, p))[1]

\* srpm_nvr_object reaches sys.exit(1) for some package __create_mapping
\* scans: .run()[0] raises IndexError
create_mapping_exits(q) ==
    \E p \in DOMAIN q : q[p].arch # "src" /\ srpm_nvr_filter(q, p) = {}

\* __create_mapping: src_by_bin
RECURSIVE create_src_by_bin(_, _, _)
create_src_by_bin(q, todo, acc) ==
    IF todo = <<>> THEN acc
    ELSE LET p == Head(todo)
         IN  IF q[p].arch = "src" THEN create_src_by_bin(q, Tail(todo), acc)
             ELSE create_src_by_bin(q, Tail(todo), acc @@ (p :> srpm(q, p)))

\* buckets keyed by the name of the binary package itself
RECURSIVE create_bin_by_src_own_name(_, _, _)
create_bin_by_src_own_name(q, todo, acc) ==
    IF todo = <<>> THEN acc
    ELSE LET p == Head(todo)
             n == q[p].name
         IN  IF q[p].arch = "src"
             THEN create_bin_by_src_own_name(q, Tail(todo), acc)
             ELSE create_bin_by_src_own_name(q, Tail(todo),
                     IF n \in DOMAIN acc THEN [acc EXCEPT ![n] = Append(@, p)]
                     ELSE acc @@ (n :> <<p>>))

\* buckets filled at the front
RECURSIVE create_bin_by_src_prepend(_, _, _)
create_bin_by_src_prepend(q, todo, acc) ==
    IF todo = <<>> THEN acc
    ELSE LET p == Head(todo)
             n == q[srpm(q, p)].name
         IN  IF q[p].arch = "src"
             THEN create_bin_by_src_prepend(q, Tail(todo), acc)
             ELSE create_bin_by_src_prepend(q, Tail(todo),
                     IF n \in DOMAIN acc THEN [acc EXCEPT ![n] = <<p>> \o @]
                     ELSE acc @@ (n :> <<p>>))

\* __create_mapping: bin_by_src, buckets in scan order
RECURSIVE create_bin_by_src(_, _, _)
create_bin_by_src(q, todo, acc) ==
    IF todo = <<>> THEN acc
    ELSE LET p == Head(todo)
             n == q[srpm(q, p)].name
         IN  IF q[p].arch = "src" THEN create_bin_by_src(q, Tail(todo), acc)
             ELSE create_bin_by_src(q, Tail(todo),
                     IF n \in DOMAIN acc THEN [acc EXCEPT ![n] = Append(@, p)]
                     ELSE acc @@ (n :> <<p>>))

\* ------------------------------------------------------------------------
\* Dependent resolver
\* ------------------------------------------------------------------------

\* provides of all packages built from srpmname, files included
RECURSIVE all_provides(_, _)
all_provides(q, rpms) ==
    IF rpms = <<>> THEN <<>>
    ELSE LET pkg == q[Head(rpms)]
         IN  pkg.provides
             \o [i \in DOMAIN pkg.files |-> FileProvide(pkg.files[i])]
             \o all_provides(q, Tail(rpms))

\* the for/else with its second test inverted (elif pkg in rpms: break)
Exclusive_inverted(q, base, ign, rpms) ==
    ~ \E pkg \in ProvidesQuery(q, base) :
          /\ q[pkg].name \notin Range(ign)
          /\ pkg \in Range(rpms)

\* the for/else of method_name23: no provider outside ignore and rpms
Exclusive(q, base, ign, rpms) ==
    ~ \E pkg \in ProvidesQuery(q, base) :
          /\ q[pkg].name \notin Range(ign)
          /\ pkg \notin Range(rpms)

\* the loop over the requiring packages without the skip of own binaries
RECURSIVE add_dependents_noskip(_, _, _, _)
add_dependents_noskip(d, pkgs, own, prov) ==
    IF pkgs = <<>> THEN d
    ELSE add_dependents_noskip(SetDefaultAdd(d, Head(pkgs), prov), Tail(pkgs),
                               own, prov)

\* dependents of one exclusive provide added to the dict d
RECURSIVE add_dependents(_, _, _, _)
add_dependents(d, pkgs, own, prov) ==
    IF pkgs = <<>> THEN d
    ELSE IF Head(pkgs) \in own THEN add_dependents(d, Tail(pkgs), own, prov)
    ELSE add_dependents(SetDefaultAdd(d, Head(pkgs), prov), Tail(pkgs), own, prov)

\* method_name23 (deep_checker.py): updates dependent_packages in place
method_name23(q, bysrc, base, d, ign, prov, rpms, srpmname) ==
    IF Exclusive(q, base, ign, rpms)
    THEN add_dependents(d, SortedSeq(RequiresQuery(q, base)),
                        Range(bysrc[srpmname]), prov)
    ELSE d

\* elide (find_unblocked_orphans.py): returns a fresh dict olle
elide(q, bysrc, base, d, ign, prov, rpms, srpmname) ==
    IF Exclusive(q, base, ign, rpms)
    THEN add_dependents(<<>>, SortedSeq(RequiresQuery(q, base)),
                        Range(bysrc[srpmname]), prov)
    ELSE <<>>

\* the loop over provides of find_dependent_packages
RECURSIVE provides_loop(_, _, _, _, _, _, _, _)
provides_loop(im, q, bysrc, provs, d, ign, rpms, srpmname) ==
    IF provs = <<>> THEN d
    ELSE LET prov == Head(provs)
             base == BaseProvide(prov)
             d2 == IF im = "deep_checker"
                   THEN method_name23(q, bysrc, base, d, ign, prov, rpms, srpmname)
                   ELSE elide(q, bysrc, base, d, ign, prov, rpms, srpmname)
         IN  provides_loop(im, q, bysrc, Tail(provs), d2, ign, rpms, srpmname)

\* a missing package that is not recorded
mark_not_in_repo_silent(nir, bysrc, srpmname) == nir

\* lines 99-105: a name without a by_src bucket is appended to not_in_repo
mark_not_in_repo(nir, bysrc, srpmname) ==
    IF srpmname \in DOMAIN bysrc THEN nir ELSE Append(nir, srpmname)

\* find_dependent_packages(srpmname, ignore): dict package -> set of provides
find_dependent_packages(im, q, bysrc, srpmname, ign) ==
    LET rpms == IF srpmname \in DOMAIN bysrc THEN bysrc[srpmname] ELSE <<>>
    IN  provides_loop(im, q, bysrc, all_provides(q, rpms), <<>>, ign, rpms, srpmname)

\* ------------------------------------------------------------------------
\* State
\* ------------------------------------------------------------------------

VARIABLES
    impl,               \* which copy of DepChecker runs: deep_checker.py or
                        \* find_unblocked_orphans.py
    dnfquery,           \* the repository snapshot
    responses,          \* outcomes the registry gives to a fetch in this run
    instance,           \* number of the DepChecker instance in use
    accesses,           \* by_src / by_bin reads made by the client so far
    index_log,          \* every __create_mapping run: instance and mappings
    calls,              \* number of the recursive_deps call in progress
    threads,            \* pagure_worker threads started so far
    found_under,        \* <<owner, check_next>> for every owner returned
    json_data,          \* what save_to_json dumps, <<>> before it runs
    packages,           \* argument of recursive_deps: the requested roots
    max_deps,           \* argument of recursive_deps
    pc,                 \* position of the caller of recursive_deps
    bin_by_src,         \* self._bin_by_src (empty before the index is built)
    src_by_bin,         \* self._src_by_bin
    rpm_pkg_names,      \* the list built at lines 178-183; ignore is bound
                        \* to this same list object at line 198
    dep_map,
    dep_chain,          \* self.dep_chain
    not_in_repo,        \* self.not_in_repo
    incomplete,
    roots_todo,         \* rest of sorted(packages) in build_dep_map
    name,               \* root being walked
    to_check,
    seen,
    allow_more,
    check_next,
    dependent_packages, \* result of the last find_dependent_packages call
    pagureinfo_queue,   \* items of self.pagureinfo_queue
    unfinished_tasks,   \* Queue.unfinished_tasks, what join() waits on
    pagure_dict,        \* self.pagure_dict
    wpc,                \* position of each pagure_worker thread
    wpkg,               \* local variable package of each worker
    fetches,            \* number of PagureInfo constructions per name
    put_log,            \* every name put on the queue, in order
    expanded,           \* every check_next popped during the call, in order
    discovered_at,      \* name -> Len(expanded) when first found as an owner
    dropped             \* root -> names cut from or refused entry to to_check

input_vars == <<impl, dnfquery, responses, packages, max_deps>>

output_vars == <<json_data>>

index_vars == <<bin_by_src, src_by_bin, instance, accesses, index_log>>

walk_vars ==
    <<pc, rpm_pkg_names, dep_map, dep_chain, not_in_repo, incomplete,
      roots_todo, name, to_check, seen, allow_more, check_next,
      dependent_packages, expanded, discovered_at, dropped, calls,
      found_under>>

queue_vars == <<pagureinfo_queue, unfinished_tasks, put_log>>

worker_vars == <<pagure_dict, wpc, wpkg, fetches, threads>>

vars ==
    <<input_vars, index_vars, walk_vars, queue_vars, worker_vars, output_vars>>

\* recursive_deps starts two pagure_worker threads
Workers == {1, 2}

\* for _ in range(2): threads started by every recursive_deps call
ThreadsPerCall == 2

\* every thread that the calls made on one instance can start
AllWorkers == 1..(ThreadsPerCall * MaxCalls)

\* ------------------------------------------------------------------------
\* Closure walker
\* ------------------------------------------------------------------------

\* sorted(packages)
RECURSIVE sorted_names(_)
sorted_names(S) ==
    IF S = {} THEN <<>>
    ELSE LET m == CHOOSE x \in S : \A y \in S : Rank(x) <= Rank(y)
         IN  <<m>> \o sorted_names(S \ {m})

\* sets of at most MaxRoots root names
RootSets == {T \in SUBSET RootNames : Cardinality(T) \in 1..MaxRoots}

\* argument lists of distinct root names, in any order
RootLists == UNION {Orderings(S) : S \in RootSets}

\* argument lists as main passes them, sorted
SortedRootLists == {sorted_names(S) : S \in RootSets}

\* rpm_pkg_names.extend([p.name for p in by_src.get(name, [])]) per root
RECURSIVE root_rpm_names(_, _, _)
root_rpm_names(q, bysrc, roots) ==
    IF roots = <<>> THEN <<>>
    ELSE LET bin_pkgs == IF Head(roots) \in DOMAIN bysrc
                         THEN bysrc[Head(roots)] ELSE <<>>
         IN  [i \in DOMAIN bin_pkgs |-> q[bin_pkgs[i]].name]
             \o root_rpm_names(q, bysrc, Tail(roots))

\* the owner taken to be the package's own name
srpm_name_of_own_name(q, sbb, pkg) == q[pkg].name

\* srpm_name of a dependent package (allow_check, line 224)
srpm_name_of(q, sbb, pkg) ==
    IF q[pkg].arch # "src" THEN q[sbb[pkg]].name ELSE q[pkg].name

\* the filter without the test against to_check
RECURSIVE new_names_loop_no_to_check_test(_, _, _, _, _, _)
new_names_loop_no_to_check_test(q, sbb, pkgs, tc, sn, acc) ==
    IF pkgs = <<>> THEN acc
    ELSE LET n == srpm_name_of(q, sbb, Head(pkgs))
         IN  IF n \notin Range(acc) /\ n \notin Range(sn)
             THEN new_names_loop_no_to_check_test(q, sbb, Tail(pkgs), tc, sn,
                                                  Append(acc, n))
             ELSE new_names_loop_no_to_check_test(q, sbb, Tail(pkgs), tc, sn,
                                                  acc)

\* the filter without the test against seen
RECURSIVE new_names_loop_no_seen_test(_, _, _, _, _, _)
new_names_loop_no_seen_test(q, sbb, pkgs, tc, sn, acc) ==
    IF pkgs = <<>> THEN acc
    ELSE LET n == srpm_name_of(q, sbb, Head(pkgs))
         IN  IF n \notin Range(tc) /\ n \notin Range(acc)
             THEN new_names_loop_no_seen_test(q, sbb, Tail(pkgs), tc, sn,
                                              Append(acc, n))
             ELSE new_names_loop_no_seen_test(q, sbb, Tail(pkgs), tc, sn, acc)

\* the filter that keeps only the first new name of a call
RECURSIVE new_names_loop_first_only(_, _, _, _, _, _)
new_names_loop_first_only(q, sbb, pkgs, tc, sn, acc) ==
    IF pkgs = <<>> THEN acc
    ELSE LET n == srpm_name_of(q, sbb, Head(pkgs))
         IN  IF n \notin Range(tc) /\ n \notin Range(acc) /\ n \notin Range(sn)
                /\ acc = <<>>
             THEN new_names_loop_first_only(q, sbb, Tail(pkgs), tc, sn,
                                            Append(acc, n))
             ELSE new_names_loop_first_only(q, sbb, Tail(pkgs), tc, sn, acc)

\* new_names: owners not in to_check, not in new_names, not in seen
RECURSIVE new_names_loop(_, _, _, _, _, _)
new_names_loop(q, sbb, pkgs, tc, sn, acc) ==
    IF pkgs = <<>> THEN acc
    ELSE LET n == srpm_name_of(q, sbb, Head(pkgs))
         IN  IF n \notin Range(tc) /\ n \notin Range(acc) /\ n \notin Range(sn)
             THEN new_names_loop(q, sbb, Tail(pkgs), tc, sn, Append(acc, n))
             ELSE new_names_loop(q, sbb, Tail(pkgs), tc, sn, acc)

\* a merge that assigns the new set of provides to the package
merge_deps_replace(sub, q, sbb, dp) ==
    LET owners == {srpm_name_of(q, sbb, p) : p \in DOMAIN dp}
    IN  [k \in DOMAIN sub \cup owners |->
            LET old == IF k \in DOMAIN sub THEN sub[k] ELSE <<>>
                newp == {p \in DOMAIN dp : srpm_name_of(q, sbb, p) = k}
            IN  [p \in DOMAIN old \cup newp |->
                    IF p \in newp THEN dp[p] ELSE old[p]]]

\* dep_map[name].setdefault(srpm_name, ..).setdefault(pkg, set()).add(dep)
merge_deps(sub, q, sbb, dp) ==
    LET owners == {srpm_name_of(q, sbb, p) : p \in DOMAIN dp}
    IN  [k \in DOMAIN sub \cup owners |->
            LET old == IF k \in DOMAIN sub THEN sub[k] ELSE <<>>
                newp == {p \in DOMAIN dp : srpm_name_of(q, sbb, p) = k}
            IN  [p \in DOMAIN old \cup newp |->
                    (IF p \in DOMAIN old THEN old[p] ELSE {})
                    \cup (IF p \in newp THEN dp[p] ELSE {})]]

\* the chain recorded in the other direction: dep_chain[check_next] gets
\* the owners
update_dep_chain_swapped(dc, owners, cn) ==
    [k \in DOMAIN dc \cup {cn} |->
        (IF k \in DOMAIN dc THEN dc[k] ELSE {})
        \cup (IF k = cn THEN owners ELSE {})]

\* self.dep_chain[new_srpm_name].add(check_next) for every owner
update_dep_chain(dc, owners, cn) ==
    [k \in DOMAIN dc \cup owners |->
        (IF k \in DOMAIN dc THEN dc[k] ELSE {})
        \cup (IF k \in owners THEN {cn} ELSE {})]

\* a budget that is never exceeded
over_budget_never(dep_count, md) == FALSE

\* the budget test off by one
over_budget_lax(dep_count, md) == dep_count > md + 1

\* the budget test with >= in place of >
over_budget_geq(dep_count, md) == dep_count >= md

\* dep_count > max_deps
over_budget(dep_count, md) == dep_count > md

\* a slice that keeps the first entry whatever todo_deps is
Prefix_keep_one(s, n) ==
    SubSeq(s, 1, IF n < Len(s) THEN (IF n < 1 /\ Len(s) >= 1 THEN 1 ELSE n)
                 ELSE Len(s))

\* to_check[:todo_deps]
Prefix(s, n) == SubSeq(s, 1, IF n < Len(s) THEN n ELSE Len(s))

\* a queue constructed with maxsize 1
queue_full_one(q) == Len(q) >= 1

\* Queue(): maxsize 0, put() never finds the queue full
queue_full(q) == FALSE

\* what one run of __create_mapping publishes, as logged
index_entry(inst, q) ==
    [instance |-> inst,
     bin_by_src |-> create_bin_by_src(q, SortedSeq(DOMAIN q), <<>>),
     src_by_bin |-> create_src_by_bin(q, SortedSeq(DOMAIN q), <<>>)]

\* by_src / by_bin read n >= 1 times in a row: `if not self._bin_by_src`
\* runs __create_mapping on every read that finds None or an empty dict
builds_for(cur, built, n) ==
    IF cur # <<>> THEN 0 ELSE IF built # <<>> THEN 1 ELSE n

\* n reads of a getter on a snapshot on which __create_mapping succeeds;
\* cur is the mapping the getter tests
read_index(cur, n) ==
    LET e == index_entry(instance, dnfquery)
        b == builds_for(cur, e.bin_by_src, n)
    IN  /\ bin_by_src' = (IF b = 0 THEN bin_by_src ELSE e.bin_by_src)
        /\ src_by_bin' = (IF b = 0 THEN src_by_bin ELSE e.src_by_bin)
        /\ index_log' = index_log \o [i \in 1..b |-> e]

\* a call whose loop takes the roots in the order of the argument
Start_unsorted ==
    /\ pc = "start"
    /\ threads' = threads + ThreadsPerCall
    /\ incomplete' = <<>>
    /\ IF queue_full(pagureinfo_queue)
       THEN /\ pc' = "put_wait"
            /\ UNCHANGED <<bin_by_src, src_by_bin, index_log, rpm_pkg_names,
                           dep_map, roots_todo, queue_vars>>
       ELSE IF bin_by_src = <<>> /\ create_mapping_exits(dnfquery)
       THEN /\ pagureinfo_queue' = Append(pagureinfo_queue, packages[1])
            /\ put_log' = Append(put_log, packages[1])
            /\ unfinished_tasks' = unfinished_tasks + 1
            /\ pc' = "exit"
            /\ UNCHANGED <<bin_by_src, src_by_bin, index_log, rpm_pkg_names,
                           dep_map, roots_todo>>
       ELSE /\ read_index(bin_by_src, Len(packages))
            /\ rpm_pkg_names' = root_rpm_names(dnfquery, bin_by_src', packages)
            /\ pagureinfo_queue' = pagureinfo_queue \o packages
            /\ put_log' = put_log \o packages
            /\ unfinished_tasks' = unfinished_tasks + Len(packages)
            /\ dep_map' = <<>>
            /\ roots_todo' = packages
            /\ pc' = "next_root"
    /\ UNCHANGED <<input_vars, output_vars, instance, accesses, pagure_dict, wpc, wpkg,
                   fetches, dep_chain, not_in_repo, name, to_check, seen,
                   allow_more, check_next, dependent_packages, expanded,
                   discovered_at, dropped, calls, found_under>>

\* lines 171-183: two threads are started, the roots are put on the queue
\* and the names of their binaries collected; the read of by_src at line 182
\* builds the index, or ends the process at the first root when a source
\* is missing (sys.exit(1) in srpm_nvr_object); a put() that finds the queue
\* full leaves the caller waiting in it
Start ==
    /\ pc = "start"
    /\ threads' = threads + ThreadsPerCall
    /\ incomplete' = <<>>
    /\ IF queue_full(pagureinfo_queue)
       THEN /\ pc' = "put_wait"
            /\ UNCHANGED <<bin_by_src, src_by_bin, index_log, rpm_pkg_names,
                           dep_map, roots_todo, queue_vars>>
       ELSE IF bin_by_src = <<>> /\ create_mapping_exits(dnfquery)
       THEN /\ pagureinfo_queue' = Append(pagureinfo_queue, packages[1])
            /\ put_log' = Append(put_log, packages[1])
            /\ unfinished_tasks' = unfinished_tasks + 1
            /\ pc' = "exit"
            /\ UNCHANGED <<bin_by_src, src_by_bin, index_log, rpm_pkg_names,
                           dep_map, roots_todo>>
       ELSE /\ read_index(bin_by_src, Len(packages))
            /\ rpm_pkg_names' = root_rpm_names(dnfquery, bin_by_src', packages)
            /\ pagureinfo_queue' = pagureinfo_queue \o packages
            /\ put_log' = put_log \o packages
            /\ unfinished_tasks' = unfinished_tasks + Len(packages)
            /\ dep_map' = <<>>
            /\ roots_todo' = sorted_names(Range(packages))
            /\ pc' = "next_root"
    /\ UNCHANGED <<input_vars, output_vars, instance, accesses, pagure_dict, wpc, wpkg,
                   fetches, dep_chain, not_in_repo, name, to_check, seen,
                   allow_more, check_next, dependent_packages, expanded,
                   discovered_at, dropped, calls, found_under>>

\* a loop head that leaves allow_more false once a root was cut
NextRoot_frozen ==
    /\ pc = "next_root"
    /\ IF roots_todo = <<>>
       THEN /\ pc' = "join"
            /\ UNCHANGED <<roots_todo, name, dep_chain, dep_map, to_check,
                           allow_more, seen, dropped>>
       ELSE /\ name' = Head(roots_todo)
            /\ roots_todo' = Tail(roots_todo)
            /\ dep_chain' = [k \in DOMAIN dep_chain \cup {Head(roots_todo)} |->
                                IF k = Head(roots_todo) THEN {} ELSE dep_chain[k]]
            /\ dep_map' = [k \in DOMAIN dep_map \cup {Head(roots_todo)} |->
                                IF k = Head(roots_todo) THEN <<>> ELSE dep_map[k]]
            /\ to_check' = <<Head(roots_todo)>>
            /\ allow_more' = (incomplete = <<>>)
            /\ seen' = <<>>
            /\ dropped' = [k \in DOMAIN dropped \cup {Head(roots_todo)} |->
                                IF k = Head(roots_todo) THEN {} ELSE dropped[k]]
            /\ pc' = "find"
    /\ UNCHANGED <<input_vars, output_vars, index_vars, queue_vars, worker_vars,
                   rpm_pkg_names, not_in_repo, incomplete, check_next,
                   dependent_packages, expanded, discovered_at, calls,
                   found_under>>

\* head of the for loop of build_dep_map (lines 195-202), or its end and the
\* return to recursive_deps (line 217, 186-189)
NextRoot ==
    /\ pc = "next_root"
    /\ IF roots_todo = <<>>
       THEN /\ pc' = "join"
            /\ UNCHANGED <<roots_todo, name, dep_chain, dep_map, to_check,
                           allow_more, seen, dropped>>
       ELSE /\ name' = Head(roots_todo)
            /\ roots_todo' = Tail(roots_todo)
            /\ dep_chain' = [k \in DOMAIN dep_chain \cup {Head(roots_todo)} |->
                                IF k = Head(roots_todo) THEN {} ELSE dep_chain[k]]
            /\ dep_map' = [k \in DOMAIN dep_map \cup {Head(roots_todo)} |->
                                IF k = Head(roots_todo) THEN <<>> ELSE dep_map[k]]
            /\ to_check' = <<Head(roots_todo)>>
            /\ allow_more' = TRUE
            /\ seen' = <<>>
            /\ dropped' = [k \in DOMAIN dropped \cup {Head(roots_todo)} |->
                                IF k = Head(roots_todo) THEN {} ELSE dropped[k]]
            /\ pc' = "find"
    /\ UNCHANGED <<input_vars, output_vars, index_vars, queue_vars, worker_vars,
                   rpm_pkg_names, not_in_repo, incomplete, check_next,
                   dependent_packages, expanded, discovered_at, calls,
                   found_under>>

\* lines 205-209: pop the head of to_check and resolve its dependents; the
\* read of by_src at line 100 runs the getter once more
Find ==
    /\ pc = "find"
    /\ read_index(bin_by_src, 1)
    /\ check_next' = Head(to_check)
    /\ to_check' = Tail(to_check)
    /\ seen' = Append(seen, Head(to_check))
    /\ expanded' = Append(expanded, Head(to_check))
    /\ not_in_repo' = mark_not_in_repo(not_in_repo, bin_by_src, Head(to_check))
    /\ dependent_packages' =
           find_dependent_packages(impl, dnfquery, bin_by_src, Head(to_check),
                                   rpm_pkg_names)
    /\ pc' = "allow"
    /\ UNCHANGED <<input_vars, output_vars, instance, accesses, queue_vars, worker_vars,
                   rpm_pkg_names, dep_map, dep_chain, incomplete, roots_todo,
                   name, allow_more, discovered_at, dropped, calls,
                   found_under>>

\* lines 207-213: allow_check when dependents were found, then the loop
\* test; a put() at line 239 that finds the queue full leaves the walker
\* waiting in it, after the merge and the update of dep_chain
Allow ==
    /\ pc = "allow"
    /\ IF dependent_packages = <<>>
       THEN UNCHANGED <<queue_vars, rpm_pkg_names, dep_map, dep_chain,
                        incomplete, to_check, allow_more, discovered_at,
                        dropped, found_under>>
       ELSE IF queue_full(pagureinfo_queue)
       THEN /\ dep_map' = [dep_map EXCEPT ![name] =
                               merge_deps(@, dnfquery, src_by_bin,
                                          dependent_packages)]
            /\ dep_chain' = update_dep_chain(dep_chain,
                                {srpm_name_of(dnfquery, src_by_bin, p) :
                                     p \in DOMAIN dependent_packages},
                                check_next)
            /\ UNCHANGED <<queue_vars, rpm_pkg_names, incomplete, to_check,
                           allow_more, discovered_at, dropped, found_under>>
       ELSE LET pkgs == SortedSeq(DOMAIN dependent_packages)
                new_names == new_names_loop(dnfquery, src_by_bin, pkgs,
                                            to_check, seen, <<>>)
                new_srpm_names == {srpm_name_of(dnfquery, src_by_bin, p) :
                                       p \in DOMAIN dependent_packages}
                sub == merge_deps(dep_map[name], dnfquery, src_by_bin,
                                  dependent_packages)
                tc1 == IF allow_more THEN to_check \o new_names ELSE to_check
                found_deps == DOMAIN sub
                dep_count == Cardinality(found_deps \cup Range(tc1))
                over == allow_more /\ over_budget(dep_count, max_deps)
                todo_deps == Max(max_deps - Cardinality(found_deps), 0)
                tc2 == IF over THEN Prefix(tc1, todo_deps) ELSE tc1
            IN  /\ dep_map' = [dep_map EXCEPT ![name] = sub]
                /\ dep_chain' = update_dep_chain(dep_chain, new_srpm_names,
                                                 check_next)
                /\ \E order \in Orderings(new_srpm_names) :
                       /\ pagureinfo_queue' = pagureinfo_queue \o order
                       /\ put_log' = put_log \o order
                /\ unfinished_tasks' = unfinished_tasks
                                       + Cardinality(new_srpm_names)
                /\ rpm_pkg_names' = rpm_pkg_names \o new_names
                /\ incomplete' = IF over THEN Append(incomplete, name)
                                 ELSE incomplete
                /\ allow_more' = (allow_more /\ ~over)
                /\ to_check' = tc2
                /\ discovered_at' =
                       [k \in DOMAIN discovered_at \cup new_srpm_names |->
                           IF k \in DOMAIN discovered_at THEN discovered_at[k]
                           ELSE Len(expanded)]
                /\ dropped' = [dropped EXCEPT ![name] =
                                  @ \cup (IF allow_more
                                          THEN Range(tc1) \ Range(tc2)
                                          ELSE Range(new_names))]
                /\ found_under' = found_under
                       \cup {<<o, check_next>> : o \in new_srpm_names}
    /\ pc' = IF dependent_packages # <<>> /\ queue_full(pagureinfo_queue)
             THEN "put_wait"
             ELSE IF to_check' = <<>> THEN "next_root" ELSE "find"
    /\ UNCHANGED <<input_vars, output_vars, index_vars, worker_vars, not_in_repo,
                   roots_todo, name, seen, check_next, dependent_packages,
                   expanded, calls>>

\* a join that only waits for the queue to be empty
queue_join_empty == pagureinfo_queue = <<>>

\* pagureinfo_queue.join(): returns once every put has its task_done
queue_join == unfinished_tasks = 0

\* lines 189-191
Join ==
    /\ pc = "join"
    /\ queue_join
    /\ pc' = "done"
    /\ UNCHANGED <<input_vars, output_vars, index_vars, queue_vars, worker_vars,
                   rpm_pkg_names, dep_map, dep_chain, not_in_repo, incomplete,
                   roots_todo, name, to_check, seen, allow_more, check_next,
                   dependent_packages, expanded, discovered_at, dropped,
                   calls, found_under>>

\* recursive_deps has returned and is called again on the same instance:
\* the frame of the finished call is gone, its return values dep_map and
\* incomplete stay with the caller, the attributes of self stay as they are
Call ==
    /\ pc = "done"
    /\ calls < MaxCalls
    /\ calls' = calls + 1
    /\ packages' \in SortedRootLists
    /\ pc' = "start"
    /\ rpm_pkg_names' = <<>>
    /\ roots_todo' = <<>>
    /\ name' = ""
    /\ to_check' = <<>>
    /\ seen' = <<>>
    /\ allow_more' = TRUE
    /\ check_next' = ""
    /\ dependent_packages' = <<>>
    /\ put_log' = <<>>
    /\ expanded' = <<>>
    /\ discovered_at' = <<>>
    /\ dropped' = <<>>
    /\ found_under' = {}
    /\ UNCHANGED <<impl, output_vars, dnfquery, responses, max_deps, index_vars,
                   worker_vars, pagureinfo_queue, unfinished_tasks, dep_map,
                   dep_chain, not_in_repo, incomplete>>

\* ------------------------------------------------------------------------
\* Reads of the index by a client before the walk, and a second instance
\* ------------------------------------------------------------------------

\* one read of a getter outside recursive_deps; cur is the mapping it tests
client_read(cur) ==
    /\ pc = "start"
    /\ calls = 1
    /\ threads = 0
    /\ accesses' = accesses + 1
    /\ IF cur = <<>> /\ create_mapping_exits(dnfquery)
       THEN /\ pc' = "exit"
            /\ UNCHANGED <<bin_by_src, src_by_bin, index_log>>
       ELSE /\ read_index(cur, 1)
            /\ pc' = pc
    /\ UNCHANGED <<input_vars, output_vars, instance, rpm_pkg_names, dep_map, dep_chain,
                   not_in_repo, incomplete, roots_todo, name, to_check, seen,
                   allow_more, check_next, dependent_packages, expanded,
                   discovered_at, dropped, calls, found_under, queue_vars,
                   worker_vars>>

\* depchecker.by_src (lines 71-75)
BySrc ==
    /\ accesses < MaxAccesses
    /\ client_read(bin_by_src)

\* depchecker.by_bin (lines 77-81)
ByBin ==
    /\ accesses < MaxAccesses
    /\ client_read(src_by_bin)

\* DepChecker(query, branch) once more over the same query (lines 46-56)
NewDepChecker ==
    /\ pc = "start"
    /\ calls = 1
    /\ threads = 0
    /\ instance < MaxInstances
    /\ instance' = instance + 1
    /\ accesses' = 0
    /\ bin_by_src' = <<>>
    /\ src_by_bin' = <<>>
    /\ pagureinfo_queue' = <<>>
    /\ unfinished_tasks' = 0
    /\ pagure_dict' = <<>>
    /\ not_in_repo' = <<>>
    /\ dep_chain' = <<>>
    /\ UNCHANGED <<input_vars, output_vars, index_log, pc, rpm_pkg_names, dep_map,
                   incomplete, roots_todo, name, to_check, seen, allow_more,
                   check_next, dependent_packages, expanded, discovered_at,
                   dropped, calls, found_under, put_log, wpc, wpkg, fetches,
                   threads>>

\* ------------------------------------------------------------------------
\* PagureInfo
\* ------------------------------------------------------------------------

\* what a fetch of the registry can do
FetchOutcomes == {"ok", "error_payload", "http_error", "exception"}

\* the exception raised inside the try block of __init__: raise_for_status
\* raises requests.exceptions.HTTPError, an error payload raises ValueError
raised(o) ==
    CASE o = "ok" -> "none"
      [] o = "error_payload" -> "ValueError"
      [] o = "http_error" -> "requests.exceptions.HTTPError"
      [] o = "exception" -> "requests.exceptions.ConnectionError"

\* the class the first except clause names: pagure_info.py imports
\* HTTPError from urllib.error, find_unblocked_orphans.py from requests
first_except(im) ==
    IF im = "deep_checker" THEN "urllib.error.HTTPError"
    ELSE "requests.exceptions.HTTPError"

\* PagureInfo.__init__: self.pkginfo when the constructor returns; "unset"
\* when the attribute was never assigned
PagureInfo(im, o) ==
    IF raised(o) = "none" THEN "record"
    ELSE IF raised(o) = first_except(im) THEN "unset"
    ELSE "None"

\* requests.get calls made by one PagureInfo.__init__: line 14, outside any
\* loop
requests_issued(o) == 1

\* PagureInfo.get_people
get_people(pkginfo) ==
    CASE pkginfo = "None" -> "[]"
      [] pkginfo = "record" -> "sorted people"
      [] OTHER -> "AttributeError"

\* PagureInfo.status_change
status_change(pkginfo) ==
    CASE pkginfo = "None" -> "now"
      [] pkginfo = "record" -> "timestamp"
      [] OTHER -> "AttributeError"

\* sc of save_to_json: the orphans that are keys of pagure_dict
status_change_keys(orphans, pd) == Range(orphans) \cap DOMAIN pd

\* save_to_json(json_filename, depchecker, orphans): the dict it dumps, or
\* the exception that leaves it
save_to_json(orphans, pd, dc) ==
    LET keys == status_change_keys(orphans, pd)
    IN  IF \E k \in keys : status_change(pd[k].pkginfo) = "AttributeError"
        THEN [raised |-> "AttributeError"]
        ELSE [raised |-> "none",
              status_change |-> [k \in keys |-> status_change(pd[k].pkginfo)],
              affected_packages |-> [k \in DOMAIN dc |-> sorted_names(dc[k])]]

\* main, line 101: the orphan list is the root list when nothing is blocked
\* and no failed package is added
SaveToJson ==
    /\ pc = "done"
    /\ json_data' = save_to_json(packages, pagure_dict, dep_chain)
    /\ pc' = "saved"
    /\ UNCHANGED <<input_vars, index_vars, queue_vars, worker_vars,
                   rpm_pkg_names, dep_map, dep_chain, not_in_repo, incomplete,
                   roots_todo, name, to_check, seen, allow_more, check_next,
                   dependent_packages, expanded, discovered_at, dropped,
                   calls, found_under>>

\* ------------------------------------------------------------------------
\* pagure_worker
\* ------------------------------------------------------------------------

\* thread w has been started and the process has not exited
running(w) == w <= threads /\ pc # "exit"

\* line 162: package = self.pagureinfo_queue.get(), blocks while empty
WorkerGet(w) ==
    /\ running(w)
    /\ wpc[w] = "get"
    /\ pagureinfo_queue # <<>>
    /\ wpkg' = [wpkg EXCEPT ![w] = Head(pagureinfo_queue)]
    /\ pagureinfo_queue' = Tail(pagureinfo_queue)
    /\ wpc' = [wpc EXCEPT ![w] = "check"]
    /\ UNCHANGED <<input_vars, output_vars, index_vars, walk_vars, unfinished_tasks,
                   put_log, pagure_dict, fetches, threads>>

\* a worker that skips task_done for a name it finds in the cache
after_check_skip(present) == IF present THEN "get" ELSE "fetch"

\* where the worker goes after the test of line 163
after_check(present) == IF present THEN "task_done" ELSE "fetch"

\* line 163: if package not in self.pagure_dict
WorkerCheck(w) ==
    /\ running(w)
    /\ wpc[w] = "check"
    /\ wpc' = [wpc EXCEPT ![w] = after_check(wpkg[w] \in DOMAIN pagure_dict)]
    /\ UNCHANGED <<input_vars, output_vars, index_vars, walk_vars, queue_vars,
                   pagure_dict, wpkg, fetches, threads>>

\* lines 164-167: construct PagureInfo (the fetch) and store it
WorkerFetch(w) ==
    /\ running(w)
    /\ wpc[w] = "fetch"
    /\ fetches' = [k \in DOMAIN fetches \cup {wpkg[w]} |->
                      IF k = wpkg[w]
                      THEN (IF k \in DOMAIN fetches THEN fetches[k] ELSE 0) + 1
                      ELSE fetches[k]]
    /\ \E o \in responses :
           pagure_dict' = [k \in DOMAIN pagure_dict \cup {wpkg[w]} |->
                              IF k = wpkg[w]
                              THEN [package |-> k, by |-> w,
                                    pkginfo |-> PagureInfo(impl, o),
                                    requests |-> requests_issued(o)]
                              ELSE pagure_dict[k]]
    /\ wpc' = [wpc EXCEPT ![w] = "task_done"]
    /\ UNCHANGED <<input_vars, output_vars, index_vars, walk_vars, queue_vars, wpkg,
                   threads>>

\* line 168: self.pagureinfo_queue.task_done()
WorkerTaskDone(w) ==
    /\ running(w)
    /\ wpc[w] = "task_done"
    /\ unfinished_tasks' = unfinished_tasks - 1
    /\ wpc' = [wpc EXCEPT ![w] = "get"]
    /\ wpkg' = [wpkg EXCEPT ![w] = ""]
    /\ UNCHANGED <<input_vars, output_vars, index_vars, walk_vars, pagureinfo_queue,
                   put_log, pagure_dict, fetches, threads>>

\* ------------------------------------------------------------------------
\* Specifications
\* ------------------------------------------------------------------------

\* the state after DepChecker.__init__, before recursive_deps is called
InitSnapshot(impls, snapshots, outcomes, rootlists, maxdeps) ==
    /\ impl \in impls
    /\ dnfquery \in snapshots
    /\ responses = outcomes
    /\ instance = 1
    /\ accesses = 0
    /\ index_log = <<>>
    /\ calls = 1
    /\ threads = 0
    /\ found_under = {}
    /\ json_data = <<>>
    /\ packages \in rootlists
    /\ max_deps \in maxdeps
    /\ pc = "start"
    /\ bin_by_src = <<>>
    /\ src_by_bin = <<>>
    /\ rpm_pkg_names = <<>>
    /\ dep_map = <<>>
    /\ dep_chain = <<>>
    /\ not_in_repo = <<>>
    /\ incomplete = <<>>
    /\ roots_todo = <<>>
    /\ name = ""
    /\ to_check = <<>>
    /\ seen = <<>>
    /\ allow_more = TRUE
    /\ check_next = ""
    /\ dependent_packages = <<>>
    /\ pagureinfo_queue = <<>>
    /\ unfinished_tasks = 0
    /\ pagure_dict = <<>>
    /\ wpc = [w \in AllWorkers |-> "get"]
    /\ wpkg = [w \in AllWorkers |-> ""]
    /\ fetches = <<>>
    /\ put_log = <<>>
    /\ expanded = <<>>
    /\ discovered_at = <<>>
    /\ dropped = <<>>

\* the same over the snapshots of the given edge sets, every fetch succeeding
InitState(impls, edgesets, rootlists, maxdeps) ==
    InitSnapshot(impls, {WithRequires(E) : E \in edgesets}, {"ok"},
                 rootlists, maxdeps)

\* snapshots of at most MaxEdges requirement edges
EdgeSets == {E \in SUBSET PossibleRequires : Cardinality(E) <= MaxEdges}

\* the walk alone (deep_checker.py, the module main.py runs), over every
\* snapshot: the walker never reads what the workers write, so the workers
\* are left where they block and the walk stops at the join
WalkInit ==
    InitState({"deep_checker"}, EdgeSets, SortedRootLists, (0 - 1)..MaxMaxDeps)

WalkNext == Start \/ NextRoot \/ Find \/ Allow

WalkSpec == WalkInit /\ [][WalkNext]_vars

\* the same walk with the DepChecker of find_unblocked_orphans.py
OrphansInit ==
    InitState({"find_unblocked_orphans"}, EdgeSets, SortedRootLists,
              (0 - 1)..MaxMaxDeps)

OrphansSpec == OrphansInit /\ [][WalkNext]_vars

\* requirement edges of the snapshots of the whole system
SystemRequires == { <<5, sa>>, <<2, sb>>, <<7, sb>> }

\* the whole system: the walker and the two workers interleaved
Init ==
    InitState({"deep_checker"},
              {E \in SUBSET SystemRequires : Cardinality(E) <= MaxEdges},
              SortedRootLists, {1, MaxMaxDeps})

Walker == Start \/ NextRoot \/ Find \/ Allow \/ Join

Worker(w) == WorkerGet(w) \/ WorkerCheck(w) \/ WorkerFetch(w) \/ WorkerTaskDone(w)

Next == Walker \/ \E w \in Workers : Worker(w)

Spec == Init /\ [][Next]_vars

\* fair scheduling of each worker thread, every fetch returns, and the
\* caller blocked in join() resumes once join() can return
LiveInit ==
    InitState({"deep_checker"},
              {E \in SUBSET SystemRequires : Cardinality(E) <= MaxEdges},
              SortedRootLists, {MaxMaxDeps})

LiveSpec ==
    /\ LiveInit
    /\ [][Next]_vars
    /\ WF_vars(Join)
    /\ \A w \in Workers : WF_vars(Worker(w))

\* a binary whose sourcerpm names d-2-1 while the snapshot has only d-1-1
StrayBinary ==
    [BinPkg("dx", "d", <<>>, <<>>) EXCEPT !.sourcerpm = <<"d", "2", "1">>]

\* the snapshot with the stray binary added
WithStray(q) == q @@ ((Len(Universe) + 1) :> StrayBinary)

\* the snapshot reduced to its source packages
SourcesOnly(q) == [p \in {x \in DOMAIN q : q[x].arch = "src"} |-> q[p]]

\* snapshots for the index: whole, without any binary, with a stray binary
IndexSnapshots ==
    LET whole == {WithRequires(E) : E \in SUBSET SystemRequires}
    IN  whole \cup {SourcesOnly(q) : q \in whole}
              \cup {WithStray(q) : q \in whole}

\* a client reads the getters, may construct a second DepChecker over the
\* same query, and calls recursive_deps
IndexInit ==
    InitSnapshot({"deep_checker", "find_unblocked_orphans"}, IndexSnapshots,
                 {"ok"}, SortedRootLists, {MaxMaxDeps})

IndexNext == BySrc \/ ByBin \/ NewDepChecker \/ WalkNext

IndexSpec == IndexInit /\ [][IndexNext]_vars

\* recursive_deps called up to MaxCalls times on one instance, with the
\* threads every call starts
CallsInit ==
    InitState({"deep_checker"}, {{<<5, sa>>}},
              {r \in SortedRootLists : Len(r) = 1}, {MaxMaxDeps})

CallsNext == Walker \/ Call \/ \E w \in AllWorkers : Worker(w)

CallsSpec == CallsInit /\ [][CallsNext]_vars

\* the registry answering a fetch in every way it can, for both copies of
\* PagureInfo
MetaInit ==
    InitSnapshot({"deep_checker", "find_unblocked_orphans"},
                 {WithRequires(E) : E \in {{}, {<<5, sa>>}}}, FetchOutcomes,
                 {r \in SortedRootLists : Len(r) = 1}, {MaxMaxDeps})

MetaNext == Next \/ SaveToJson

MetaSpec == MetaInit /\ [][MetaNext]_vars

\* a call with two roots in either order of the argument list, the workers
\* interleaved
OrderInit ==
    InitState({"deep_checker"},
              {E \in SUBSET SystemRequires : Cardinality(E) <= MaxEdges},
              {r \in RootLists : Len(r) = 2}, {1, MaxMaxDeps})

OrderSpec == OrderInit /\ [][Next]_vars

\* ------------------------------------------------------------------------
\* recursive_deps as a function of the index, the root set and max_deps
\* ------------------------------------------------------------------------

\* one call of allow_check on the locals and outputs held in st
allow_check(q, sbb, md, nm, cn, dp, st) ==
    LET pkgs == SortedSeq(DOMAIN dp)
        new_names == new_names_loop(q, sbb, pkgs, st.to_check, st.seen, <<>>)
        new_srpm_names == {srpm_name_of(q, sbb, p) : p \in DOMAIN dp}
        sub == merge_deps(st.dep_map[nm], q, sbb, dp)
        tc1 == IF st.allow_more THEN st.to_check \o new_names
               ELSE st.to_check
        dep_count == Cardinality(DOMAIN sub \cup Range(tc1))
        over == st.allow_more /\ over_budget(dep_count, md)
        todo_deps == Max(md - Cardinality(DOMAIN sub), 0)
    IN  [st EXCEPT !.dep_map = [@ EXCEPT ![nm] = sub],
                   !.dep_chain = update_dep_chain(@, new_srpm_names, cn),
                   !.ignore = @ \o new_names,
                   !.incomplete = IF over THEN Append(@, nm) ELSE @,
                   !.allow_more = st.allow_more /\ ~over,
                   !.to_check = IF over THEN Prefix(tc1, todo_deps) ELSE tc1]

\* the while loop of build_dep_map (lines 203-213) for the root nm
RECURSIVE while_loop(_, _, _, _, _, _, _)
while_loop(im, q, bysrc, sbb, md, nm, st) ==
    LET cn == Head(st.to_check)
        dp == find_dependent_packages(im, q, bysrc, cn, st.ignore)
        popped == [st EXCEPT !.to_check = Tail(@),
                             !.seen = Append(@, cn),
                             !.not_in_repo = mark_not_in_repo(@, bysrc, cn)]
        after == IF dp = <<>> THEN popped
                 ELSE allow_check(q, sbb, md, nm, cn, dp, popped)
    IN  IF after.to_check = <<>> THEN after
        ELSE while_loop(im, q, bysrc, sbb, md, nm, after)

\* the for loop of build_dep_map over the sorted roots (lines 195-202)
RECURSIVE for_loop(_, _, _, _, _, _, _)
for_loop(im, q, bysrc, sbb, md, roots, st) ==
    IF roots = <<>> THEN st
    ELSE LET nm == Head(roots)
             head == [st EXCEPT
                         !.dep_chain = [k \in DOMAIN @ \cup {nm} |->
                                           IF k = nm THEN {} ELSE @[k]],
                         !.dep_map = [k \in DOMAIN @ \cup {nm} |->
                                         IF k = nm THEN <<>> ELSE @[k]],
                         !.to_check = <<nm>>,
                         !.allow_more = TRUE,
                         !.seen = <<>>]
         IN  for_loop(im, q, bysrc, sbb, md, Tail(roots),
                      while_loop(im, q, bysrc, sbb, md, nm, head))

\* what one recursive_deps call on a fresh instance leaves, given the set of
\* its roots
recursive_deps(im, q, bysrc, sbb, rootset, md) ==
    LET roots == sorted_names(rootset)
    IN  for_loop(im, q, bysrc, sbb, md, roots,
                 [dep_map |-> <<>>, dep_chain |-> <<>>, incomplete |-> <<>>,
                  not_in_repo |-> <<>>, to_check |-> <<>>, seen |-> <<>>,
                  allow_more |-> TRUE,
                  ignore |-> root_rpm_names(q, bysrc, roots)])

\* ------------------------------------------------------------------------
\* scratch.py: the walk written inline in recursive_deps
\* ------------------------------------------------------------------------

\* scratch.py find_dependent_packages: the elision and the loop over the
\* requirers inline, the one dict updated in place for every provide
scratch_find_dependent_packages(q, bysrc, srpmname, ign) ==
    LET rpms == IF srpmname \in DOMAIN bysrc THEN bysrc[srpmname] ELSE <<>>
    IN  provides_loop("deep_checker", q, bysrc, all_provides(q, rpms), <<>>,
                      ign, rpms, srpmname)

\* scratch.py lines 461-508: the while loop for the root nm
RECURSIVE scratch_while(_, _, _, _, _, _)
scratch_while(q, bysrc, sbb, md, nm, st) ==
    LET cn == Head(st.to_check)
        dp == scratch_find_dependent_packages(q, bysrc, cn, st.ignore)
        nir == IF cn \in DOMAIN bysrc THEN st.not_in_repo
               ELSE Append(st.not_in_repo, cn)
        tc0 == Tail(st.to_check)
        sn == Append(st.seen, cn)
        new_names == new_names_loop(q, sbb, SortedSeq(DOMAIN dp), tc0, sn,
                                    <<>>)
        new_srpm_names == {srpm_name_of(q, sbb, p) : p \in DOMAIN dp}
        sub == merge_deps(st.dep_map[nm], q, sbb, dp)
        tc1 == IF st.allow_more THEN tc0 \o new_names ELSE tc0
        dep_count == Cardinality(DOMAIN sub \cup Range(tc1))
        over == st.allow_more /\ dep_count > md
        todo_deps == IF md - Cardinality(DOMAIN sub) < 0 THEN 0
                     ELSE md - Cardinality(DOMAIN sub)
        after ==
            IF dp = <<>>
            THEN [st EXCEPT !.to_check = tc0, !.seen = sn,
                            !.not_in_repo = nir]
            ELSE [st EXCEPT
                     !.seen = sn,
                     !.not_in_repo = nir,
                     !.dep_map = [@ EXCEPT ![nm] = sub],
                     !.dep_chain = [k \in DOMAIN @ \cup new_srpm_names |->
                                       (IF k \in DOMAIN @ THEN @[k] ELSE {})
                                       \cup (IF k \in new_srpm_names
                                             THEN {cn} ELSE {})],
                     !.ignore = @ \o new_names,
                     !.incomplete = IF over THEN Append(@, nm) ELSE @,
                     !.allow_more = st.allow_more /\ ~over,
                     !.to_check = IF over
                                  THEN SubSeq(tc1, 1, IF todo_deps < Len(tc1)
                                                      THEN todo_deps
                                                      ELSE Len(tc1))
                                  ELSE tc1]
    IN  IF after.to_check = <<>> THEN after
        ELSE scratch_while(q, bysrc, sbb, md, nm, after)

\* scratch.py lines 452-511: the for loop over sorted(packages)
RECURSIVE scratch_for(_, _, _, _, _, _)
scratch_for(q, bysrc, sbb, md, roots, st) ==
    IF roots = <<>> THEN st
    ELSE LET nm == Head(roots)
             head == [st EXCEPT
                         !.dep_chain = [k \in DOMAIN @ \cup {nm} |->
                                           IF k = nm THEN {} ELSE @[k]],
                         !.dep_map = [k \in DOMAIN @ \cup {nm} |->
                                         IF k = nm THEN <<>> ELSE @[k]],
                         !.to_check = <<nm>>,
                         !.allow_more = TRUE,
                         !.seen = <<>>]
         IN  scratch_for(q, bysrc, sbb, md, Tail(roots),
                         scratch_while(q, bysrc, sbb, md, nm, head))

\* scratch.py recursive_deps on a fresh instance (lines 434-515)
scratch_recursive_deps(q, bysrc, sbb, pkgs, md) ==
    scratch_for(q, bysrc, sbb, md, sorted_names(Range(pkgs)),
                [dep_map |-> <<>>, dep_chain |-> <<>>, incomplete |-> <<>>,
                 not_in_repo |-> <<>>, to_check |-> <<>>, seen |-> <<>>,
                 allow_more |-> TRUE,
                 ignore |-> root_rpm_names(q, bysrc, pkgs)])

\* ------------------------------------------------------------------------
\* Properties
\* ------------------------------------------------------------------------

\* build_dep_map has returned: dep_map and incomplete are final
WalkOver == pc \in {"join", "done"}

\* every provide string recorded somewhere in dep_map[r]
Recorded(r) ==
    UNION {UNION {dep_map[r][k][p] : p \in DOMAIN dep_map[r][k]} :
              k \in DOMAIN dep_map[r]}

\* binaries of a source name in the index
BinsOf(n) == IF n \in DOMAIN bin_by_src THEN Range(bin_by_src[n]) ELSE {}

\* a package that still supplies its provides at the end of the call: its
\* name never entered the ignore list and its source was never expanded
Survives(p) ==
    /\ dnfquery[p].name \notin Range(rpm_pkg_names)
    /\ srpm_name_of(dnfquery, src_by_bin, p) \notin Range(expanded)

\* C1 (as stated): after the walk the number of dependent source names that
\* are keys of dep_map[name] does not exceed max_deps, for every root (a
\* negative max_deps read as a budget of zero).
C1_KeysWithinBudget ==
    WalkOver => \A r \in DOMAIN dep_map :
                    Cardinality(DOMAIN dep_map[r]) <= Max(max_deps, 0)

\* C1 (amended): after the walk, a root that is not in incomplete has at
\* most max(max_deps, 0) keys in dep_map[name]; a root in incomplete may
\* have more.
C1_CompleteRootWithinBudget ==
    WalkOver => \A r \in DOMAIN dep_map :
                    r \notin Range(incomplete)
                    => Cardinality(DOMAIN dep_map[r]) <= Max(max_deps, 0)

C1_Witness ==
    /\ WalkOver
    /\ max_deps >= 2
    /\ \E r \in DOMAIN dep_map :
           /\ r \notin Range(incomplete)
           /\ Cardinality(DOMAIN dep_map[r]) = max_deps

\* C2: after the walk a root is in incomplete if and only if a discovered
\* source name was cut from to_check or refused entry to it.
C2_IncompleteIffTruncated ==
    WalkOver => \A r \in DOMAIN dep_map :
                    (r \in Range(incomplete)) <=> (dropped[r] # {})

\* C3: a name is fetched at most once whatever the interleaving of the two
\* workers, and exactly once when the call has returned.
C3_FetchOnce ==
    /\ \A n \in DOMAIN fetches : fetches[n] <= 1
    /\ pc = "done" => \A n \in Range(put_log) :
                          n \in DOMAIN fetches /\ fetches[n] = 1

\* C4 (as stated): a provide of a binary of root A that is also provided by
\* a package of another source that is not a requested root is recorded
\* nowhere in dep_map[A].
C4_NoSharedSymbolUnderRoot ==
    WalkOver =>
        \A A \in DOMAIN dep_map :
            \A prov \in Range(all_provides(dnfquery, SortedSeq(BinsOf(A)))) :
                (\E p \in ProvidesQuery(dnfquery, BaseProvide(prov)) :
                     /\ p \notin BinsOf(A)
                     /\ srpm_name_of(dnfquery, src_by_bin, p) \notin Range(packages))
                => prov \notin Recorded(A)

\* C4 (amended): a provide that is also provided by a package that survives
\* the call (its name is never appended to the ignore list and its source
\* is never expanded as check_next) is recorded in no dep_map entry.
C4_NoSurvivingProviderRecorded ==
    \A A \in DOMAIN dep_map :
        \A prov \in Recorded(A) :
            \A p \in ProvidesQuery(dnfquery, BaseProvide(prov)) : ~Survives(p)

C4_Witness ==
    /\ WalkOver
    /\ \E A \in DOMAIN dep_map :
           \E prov \in Range(all_provides(dnfquery, SortedSeq(BinsOf(A)))) :
               /\ \E p \in ProvidesQuery(dnfquery, BaseProvide(prov)) :
                      p \notin BinsOf(A) /\ Survives(p)
               /\ RequiresQuery(dnfquery, BaseProvide(prov)) \ BinsOf(A) # {}
               /\ prov \notin Recorded(A)
               /\ Recorded(A) # {}

\* C5: find_dependent_packages(s, ignore) returns no binary built from s.
C5_NoOwnBinaryReturned ==
    pc = "allow" => DOMAIN dependent_packages \cap BinsOf(check_next) = {}

C5_Witness ==
    /\ pc = "allow"
    /\ dependent_packages # <<>>
    /\ \E prov \in Range(all_provides(dnfquery, SortedSeq(BinsOf(check_next)))) :
           /\ ProvidesQuery(dnfquery, BaseProvide(prov)) \subseteq BinsOf(check_next)
           /\ RequiresQuery(dnfquery, BaseProvide(prov)) \cap BinsOf(check_next) # {}

\* C6 (as stated): after the walk every member c of dep_chain[p] was
\* expanded before p was first discovered as a dependent.
C6_ExpandedBeforeFirstDiscovery ==
    WalkOver => \A p \in DOMAIN dep_chain : \A c \in dep_chain[p] :
                    \E i \in 1..discovered_at[p] : expanded[i] = c

\* C6 (amended): at every moment every member c of dep_chain[p] is a
\* package that has already been popped as check_next; it need not have
\* been expanded before p was first discovered.
C6_ChainMembersExpanded ==
    \A p \in DOMAIN dep_chain : dep_chain[p] \subseteq Range(expanded)

C6_Witness ==
    /\ WalkOver
    /\ \E p \in DOMAIN dep_chain : Cardinality(dep_chain[p]) >= 2

\* C7: when recursive_deps returns, pagure_dict has an entry for every
\* requested root and for every key of every dep_map[root], and no worker
\* holds an item.
C7_CacheCompleteAtReturn ==
    pc = "done" =>
        /\ Range(packages) \subseteq DOMAIN pagure_dict
        /\ \A r \in DOMAIN dep_map : DOMAIN dep_map[r] \subseteq DOMAIN pagure_dict
        /\ \A w \in Workers : wpc[w] = "get"
        /\ pagureinfo_queue = <<>>

C7_Witness ==
    /\ pc = "done"
    /\ \E r \in DOMAIN dep_map :
           \E k \in DOMAIN dep_map[r] : k \notin Range(packages)

\* C8: under fair scheduling the final join of recursive_deps eventually
\* returns.
C8_JoinReturns == (pc = "join") ~> (pc = "done")

C8_Witness ==
    /\ pc = "done"
    /\ \E i, j \in DOMAIN put_log : i # j /\ put_log[i] = put_log[j]

\* C9: find_dependent_packages(s, ignore) returns, for every provide of the
\* binaries of s that has no provider outside ignore and outside those
\* binaries, every requiring package that is not a binary of s, with that
\* provide in its value set.
C9_UnionOverAllProvides ==
    pc = "allow" =>
        \A prov \in Range(all_provides(dnfquery, SortedSeq(BinsOf(check_next)))) :
            (\A p \in ProvidesQuery(dnfquery, BaseProvide(prov)) :
                 \/ dnfquery[p].name \in Range(rpm_pkg_names)
                 \/ p \in BinsOf(check_next))
            => \A d \in RequiresQuery(dnfquery, BaseProvide(prov))
                        \ BinsOf(check_next) :
                   /\ d \in DOMAIN dependent_packages
                   /\ prov \in dependent_packages[d]

\* C10: a package whose name is in ignore is never returned as a
\* dependent, and never counts as an alternate provider.
C10_IgnoredNeverReturned ==
    pc = "allow" =>
        /\ \A d \in DOMAIN dependent_packages :
               dnfquery[d].name \notin Range(rpm_pkg_names)
        /\ \A prov \in Range(all_provides(dnfquery, SortedSeq(BinsOf(check_next)))) :
               (\A p \in ProvidesQuery(dnfquery, BaseProvide(prov)) :
                    \/ dnfquery[p].name \in Range(rpm_pkg_names)
                    \/ p \in BinsOf(check_next))
               => Exclusive(dnfquery, BaseProvide(prov), rpm_pkg_names,
                            SortedSeq(BinsOf(check_next)))

\* the snapshot in which one package requires one symbol of source a, with
\* the owner and the provide string the walk of a is expected to record
Example ==
    { [edge |-> <<5, sa>>, owner |-> "b", prov |-> sa1],
      [edge |-> <<7, sa>>, owner |-> "c", prov |-> sa1],
      [edge |-> <<5, fbr>>, owner |-> "b", prov |-> fbr],
      [edge |-> <<5, fe>>, owner |-> "b", prov |-> fe] }

\* C11: when source a alone provides one symbol that exactly one binary of
\* another source requires, recursive_deps(<<a>>) with a budget of at least
\* one returns dep_map = {a: {owner: {binary: {symbol}}}}, an empty
\* incomplete list and an empty not_in_repo.
C11_SingleDependentExample ==
    \A x \in Example :
        (/\ WalkOver
         /\ dnfquery = WithRequires({x.edge})
         /\ packages = <<"a">>
         /\ max_deps >= 1)
        => /\ dep_map = ("a" :> (x.owner :> (x.edge[1] :> {x.prov})))
           /\ incomplete = <<>>
           /\ not_in_repo = <<>>

C11_Witness ==
    /\ WalkOver
    /\ dnfquery = WithRequires({<<7, sa>>})
    /\ packages = <<"a">>
    /\ max_deps = MaxMaxDeps
    /\ expanded = <<"a", "c">>

MissingSource ==
    \E p \in DOMAIN dnfquery :
        /\ dnfquery[p].arch # "src"
        /\ ~ \E s \in DOMAIN dnfquery :
                 /\ dnfquery[s].arch = "src"
                 /\ <<dnfquery[s].name, dnfquery[s].version,
                      dnfquery[s].release>> = dnfquery[p].sourcerpm

\* C13: when a binary names a source NVR that no src package of the
\* snapshot has, the first read of the index ends the run: no mapping is
\* published and recursive_deps produces no dep_map.
C13_MissingSourceAborts ==
    MissingSource =>
        /\ pc \in {"start", "exit"}
        /\ accesses > 0 => pc = "exit"
        /\ bin_by_src = <<>>
        /\ src_by_bin = <<>>
        /\ index_log = <<>>
        /\ dep_map = <<>>

C13_Witness ==
    /\ MissingSource
    /\ pc = "exit"
    /\ threads = ThreadsPerCall
    /\ accesses = 0

\* C14: whatever the fetch does, a constructed PagureInfo holds a metadata
\* record or the sentinel None, and with the sentinel get_people returns an
\* empty list and status_change does not fail.
C14_RecordOrSentinel ==
    \A k \in DOMAIN pagure_dict :
        LET i == pagure_dict[k].pkginfo
        IN  /\ i \in {"record", "None"}
            /\ get_people(i) # "AttributeError"
            /\ status_change(i) # "AttributeError"
            /\ i = "None" => get_people(i) = "[]"
\* the source package a binary names: same name, version and release
SourceOf(p) ==
    {s \in DOMAIN dnfquery :
        /\ dnfquery[s].arch = "src"
        /\ <<dnfquery[s].name, dnfquery[s].version, dnfquery[s].release>>
               = dnfquery[p].sourcerpm}

\* positions of p in the bucket b
Positions(b, p) == {i \in DOMAIN b : b[i] = p}

\* C15: in every index built, each non-source package is in exactly one
\* by_src bucket, once, namely the bucket of its source package's name, and
\* has one by_bin entry, its source; no src package is a by_bin key or a
\* bucket member.
C15_IndexPartition ==
    \A i \in DOMAIN index_log :
        LET bysrc == index_log[i].bin_by_src
            bybin == index_log[i].src_by_bin
        IN  \A p \in DOMAIN dnfquery :
                IF dnfquery[p].arch = "src"
                THEN /\ p \notin DOMAIN bybin
                     /\ \A n \in DOMAIN bysrc : p \notin Range(bysrc[n])
                ELSE /\ p \in DOMAIN bybin
                     /\ bybin[p] \in SourceOf(p)
                     /\ \A n \in DOMAIN bysrc :
                            Cardinality(Positions(bysrc[n], p))
                                = IF n = dnfquery[p].sourcerpm[1] THEN 1 ELSE 0
                     /\ dnfquery[p].sourcerpm[1] \in DOMAIN bysrc

C15_Witness ==
    /\ index_log # <<>>
    /\ "c" \in DOMAIN bin_by_src
    /\ "a" \in DOMAIN bin_by_src
    /\ Len(bin_by_src["a"]) = 2

\* builds logged for the instance in use
BuildsOfInstance == {i \in DOMAIN index_log : index_log[i].instance = instance}

\* C16: one DepChecker instance builds the index exactly once, on the first
\* read of by_src or by_bin, and the mappings stay what that build
\* published, also when the snapshot has no non-source package.
C16_IndexBuiltOnce ==
    /\ Cardinality(BuildsOfInstance) <= 1
    /\ (pc # "exit" /\ (accesses > 0 \/ pc # "start"))
       => Cardinality(BuildsOfInstance) = 1
    /\ \A i \in BuildsOfInstance :
           /\ bin_by_src = index_log[i].bin_by_src
           /\ src_by_bin = index_log[i].src_by_bin

C18_FreshPerCall ==
    /\ pc = "start" => /\ dep_chain = <<>>
                       /\ not_in_repo = <<>>
                       /\ pagure_dict = <<>>
    /\ (pc = "next_root" /\ expanded = <<>>) => /\ dep_map = <<>>
                                                /\ incomplete = <<>>

\* C19: after the walk, for every owner p returned while check_next c was
\* expanded, under any root, c is in dep_chain[p].
C19_ChainKeepsEveryDiscovery ==
    WalkOver => \A pr \in found_under :
                    /\ pr[1] \in DOMAIN dep_chain
                    /\ pr[2] \in dep_chain[pr[1]]

\* C20: after the walk the names in not_in_repo are exactly the requested
\* roots without binaries in the index.
C20_NotInRepoOnlyRoots ==
    WalkOver => Range(not_in_repo) = Range(packages) \ DOMAIN bin_by_src

\* C21: the metadata cache is write-once per name: an entry of pagure_dict,
\* once stored, is never replaced by a later worker step.
C21_WriteOnce ==
    [][\A k \in DOMAIN pagure_dict :
           k \in DOMAIN pagure_dict' /\ pagure_dict'[k] = pagure_dict[k]]_vars

\* C23: in the JSON output status_change has a key for every key of
\* pagure_dict whose metadata is available and for no name with the
\* unavailable sentinel, and affected_packages maps every key of dep_chain to
\* the sorted list of its members.
C23_JsonOutput ==
    pc = "saved" =>
        /\ json_data.raised = "none"
        /\ DOMAIN json_data.status_change =
               {k \in DOMAIN pagure_dict : pagure_dict[k].pkginfo = "record"}
        /\ DOMAIN json_data.affected_packages = DOMAIN dep_chain
        /\ \A k \in DOMAIN dep_chain :
               /\ Range(json_data.affected_packages[k]) = dep_chain[k]
               /\ \A i, j \in DOMAIN json_data.affected_packages[k] :
                      i < j => Rank(json_data.affected_packages[k][i])
                                   < Rank(json_data.affected_packages[k][j])

\* C24: the per-package metadata fetch retries on a transient failure: an
\* entry whose fetch failed was stored after more than one request.
C24_FetchRetries ==
    \A k \in DOMAIN pagure_dict :
        pagure_dict[k].pkginfo # "record" => pagure_dict[k].requests >= 2

\* C22: with max_deps <= 0 every root that has a dependent is in incomplete
\* once its first expansion is merged, and its walk ends there: to_check is
\* empty, the root is the only name seen and no dependent is ever expanded.
C22_ZeroBudget ==
    max_deps <= 0 =>
        /\ Range(expanded) \subseteq Range(packages)
        /\ \A i, j \in DOMAIN expanded : expanded[i] = expanded[j] => i = j
        /\ (pc \in {"next_root", "join"} /\ name # "") =>
               /\ to_check = <<>>
               /\ seen = <<name>>
        /\ \A r \in DOMAIN dep_map :
               (dep_map[r] # <<>> /\ ~(pc = "allow" /\ name = r)) =>
                   r \in Range(incomplete)

\* a walk with a budget of zero or less that is over, with a root marked
\* incomplete and the dependents of two roots merged
C22_Witness ==
    /\ max_deps <= 0
    /\ pc = "join"
    /\ Len(incomplete) = 2
    /\ \A r \in Range(packages) : dep_map[r] # <<>>

\* C25: at the start of the walk of each root the ignore list holds exactly
\* the binary package names of all requested roots.
C25_IgnoreFreshPerRoot ==
    (pc = "find" /\ seen = <<>>) =>
        Range(rpm_pkg_names) =
            {dnfquery[p].name : p \in UNION {BinsOf(r) : r \in Range(packages)}}

\* C26: a step of allow_check taken while allow_more is true appends the new
\* names to to_check; when the dependent sources recorded for the root and
\* the names to check number more than max_deps, the root is appended to
\* incomplete, allow_more becomes false and to_check is cut to its first
\* max(0, max_deps - |keys|) entries in order; otherwise to_check,
\* allow_more and incomplete stay as they are.  With allow_more false
\* nothing is appended.
C26_BudgetRule ==
    [][(pc = "allow" /\ dependent_packages # <<>>) =>
          LET appended == SubSeq(rpm_pkg_names', Len(rpm_pkg_names) + 1,
                                 Len(rpm_pkg_names'))
              extended == to_check \o appended
              found == DOMAIN dep_map'[name]
              count == Cardinality(found \cup Range(extended))
              room == IF max_deps - Cardinality(found) > 0
                      THEN max_deps - Cardinality(found) ELSE 0
              kept == IF room < Len(extended) THEN room ELSE Len(extended)
          IN  /\ Range(appended) =
                     {srpm_name_of(dnfquery, src_by_bin, p) :
                          p \in DOMAIN dependent_packages}
                     \ (Range(to_check) \cup Range(seen))
              /\ \A i, j \in DOMAIN appended :
                     appended[i] = appended[j] => i = j
              /\ IF ~allow_more
                 THEN /\ to_check' = to_check
                      /\ ~allow_more'
                      /\ incomplete' = incomplete
                 ELSE IF count > max_deps
                 THEN /\ incomplete' = Append(incomplete, name)
                      /\ ~allow_more'
                      /\ to_check' = [i \in 1..kept |-> extended[i]]
                 ELSE /\ to_check' = extended
                      /\ allow_more'
                      /\ incomplete' = incomplete]_vars

\* a finished walk in which one root went over a positive budget and was
\* cut, and another root stayed within it
C26_Witness ==
    /\ pc = "join"
    /\ max_deps >= 1
    /\ \E r1, r2 \in Range(packages) :
           /\ r1 \in Range(incomplete)
           /\ dropped[r1] # {}
           /\ r2 \notin Range(incomplete)
           /\ dep_map[r2] # <<>>

\* C27: dep_map[name] only grows: no step removes a dependent source, a
\* dependent binary or a recorded symbol, and every edge the resolver returns
\* for an expanded name is merged into dep_map[name], with allow_more true
\* or false.
C27_DepMapOnlyGrows ==
    [][/\ \A r \in DOMAIN dep_map :
             /\ r \in DOMAIN dep_map'
             /\ \A k \in DOMAIN dep_map[r] :
                    /\ k \in DOMAIN dep_map'[r]
                    /\ \A p \in DOMAIN dep_map[r][k] :
                           /\ p \in DOMAIN dep_map'[r][k]
                           /\ dep_map[r][k][p] \subseteq dep_map'[r][k][p]
       /\ pc = "allow" =>
             \A p \in DOMAIN dependent_packages :
                 LET k == IF dnfquery[p].arch = "src" THEN dnfquery[p].name
                          ELSE dnfquery[src_by_bin[p]].name
                 IN  /\ k \in DOMAIN dep_map'[name]
                     /\ p \in DOMAIN dep_map'[name][k]
                     /\ dependent_packages[p]
                            \subseteq dep_map'[name][k][p]]_vars

\* a root cut by the budget whose map holds, for one dependent binary, the
\* symbols of two expansions
C27_Witness ==
    /\ pc = "join"
    /\ \E r \in Range(incomplete) :
           \E k \in DOMAIN dep_map[r] :
               \E p \in DOMAIN dep_map[r][k] :
                   Cardinality(dep_map[r][k][p]) >= 2

\* C28: within the walk of one root to_check holds no duplicate and no name
\* that is in seen, and no name is expanded twice for that root, cycles back
\* to the root included.
C28_NoRepeatedExpansion ==
    pc \in {"find", "allow", "next_root"} =>
        /\ \A i, j \in DOMAIN to_check : to_check[i] = to_check[j] => i = j
        /\ Range(to_check) \cap Range(seen) = {}
        /\ \A i, j \in DOMAIN seen : seen[i] = seen[j] => i = j

\* a walk over a cycle: the root was found again as a dependent of one of
\* its own dependents, which was expanded
C28_Witness ==
    /\ pc = "next_root"
    /\ name # ""
    /\ Len(seen) >= 2
    /\ name \in DOMAIN dep_map[name]

\* every name a walk can meet: the names of the snapshot and the roots
WalkNames == {dnfquery[p].name : p \in DOMAIN dnfquery} \cup Range(packages)

\* what is left of the walk of the current root: the names not yet seen,
\* counted twice, and one more while the resolver's result is unmerged
WalkMeasure ==
    2 * (Cardinality(WalkNames) - Len(seen)) + (IF pc = "allow" THEN 1 ELSE 0)

\* C29: the walk loop of each root terminates with to_check empty and never
\* pops an empty list: to_check is non-empty at every pop, it is empty when
\* the loop is left, and every iteration strictly decreases a measure that
\* is never negative, on cyclic graphs and for every max_deps.
C29_WalkTerminates ==
    /\ [](/\ pc = "find" => to_check # <<>>
          /\ (pc = "next_root" /\ name # "") => to_check = <<>>
          /\ pc \in {"find", "allow"} => WalkMeasure >= 0)
    /\ [][/\ pc = "find" => pc' = "allow" /\ WalkMeasure' < WalkMeasure
          /\ pc = "allow" =>
                \/ pc' = "find" /\ WalkMeasure' < WalkMeasure
                \/ pc' = "next_root" /\ to_check' = <<>>]_vars

\* the loop of a root on a cyclic graph has ended after three expansions
C29_Witness ==
    /\ pc = "next_root"
    /\ name # ""
    /\ name \in DOMAIN dep_map[name]
    /\ Len(seen) >= 3
    /\ to_check = <<>>

\* the walker is at a position of the walk and its next step can be taken
WalkerCanStep ==
    \/ pc \in {"start", "next_root", "allow"}
    \/ pc = "find" /\ to_check # <<>>

\* C30: the walker never waits on the workers before the final join: it is
\* never left waiting in a put, and at every position before the join its
\* next step can be taken whatever the workers are doing.
C30_WalkerNeverWaits ==
    /\ pc # "put_wait"
    /\ pc \notin {"join", "done", "exit"} => WalkerCanStep

\* the walk over all roots is complete and waits in the join while both
\* workers are inside their first fetch and names are still queued
C30_Witness ==
    /\ pc = "join"
    /\ \A w \in Workers : wpc[w] = "fetch"
    /\ pagure_dict = <<>>
    /\ pagureinfo_queue # <<>>
    /\ dep_map # <<>>

\* C31: truncation of a root is a per-root signal that stops nothing: the
\* loop head starts every next root, in sorted order, with allow_more true,
\* to_check = [root] and seen empty whatever incomplete holds, every root is
\* walked by the time the loop is left, and no root is in incomplete twice.
C31_TruncationPerRoot ==
    /\ [](/\ \A i, j \in DOMAIN incomplete :
                 incomplete[i] = incomplete[j] => i = j
          /\ Range(incomplete) \subseteq Range(packages)
          /\ pc = "join" => Range(packages) \subseteq Range(expanded))
    /\ [][(pc = "next_root" /\ roots_todo # <<>>) =>
              /\ pc' = "find"
              /\ name' = Head(roots_todo)
              /\ \A r \in Range(roots_todo) : Rank(name') <= Rank(r)
              /\ name = "" \/ Rank(name) < Rank(name')
              /\ allow_more'
              /\ to_check' = <<name'>>
              /\ seen' = <<>>
              /\ incomplete' = incomplete]_vars

\* the walk of a later root starts after an earlier root was cut
C31_Witness ==
    /\ pc = "find"
    /\ seen = <<>>
    /\ incomplete # <<>>
    /\ name \notin Range(incomplete)
    /\ allow_more
    /\ to_check = <<name>>

\* C32: the output of recursive_deps does not depend on the order of the
\* root list nor on the scheduling of the workers: when the call returns,
\* dep_map, incomplete and dep_chain are what the root set, the index and
\* max_deps determine, and the keys of dep_map were inserted in sorted root
\* order.
C32_OrderIndependent ==
    /\ name # "" =>
           DOMAIN dep_map = {r \in Range(packages) : Rank(r) <= Rank(name)}
    /\ pc = "done" =>
           LET out == recursive_deps(impl, dnfquery, bin_by_src, src_by_bin,
                                     Range(packages), max_deps)
           IN  /\ dep_map = out.dep_map
               /\ incomplete = out.incomplete
               /\ dep_chain = out.dep_chain

\* a finished call whose two roots were given in descending order, one of
\* them cut, with a worker's store already made
C32_Witness ==
    /\ pc = "done"
    /\ Len(packages) = 2
    /\ Rank(packages[1]) > Rank(packages[2])
    /\ incomplete # <<>>
    /\ \E r \in Range(packages) : dep_map[r] # <<>>
    /\ pagure_dict # <<>>

\* C33: the number of names expanded during the walk of a root is at most
\* max(max_deps, 0) + 1.
C33_ExpansionsWithinBudget ==
    pc \in {"find", "allow", "next_root"} =>
        Len(seen) <= Max(max_deps, 0) + 1

\* a root cut after its second expansion under a budget of one, with a
\* discovered name left unexpanded
C33_Witness ==
    /\ pc = "next_root"
    /\ max_deps = 1
    /\ Len(seen) = 2
    /\ name \in Range(incomplete)
    /\ dropped[name] # {}

\* C34: when the walk of a root ends and the root is not in incomplete,
\* every dependent source recorded in dep_map[root] was expanded during
\* that walk.
C34_CompleteRootFullyExplored ==
    (pc = "next_root" /\ name # "" /\ name \notin Range(incomplete)) =>
        DOMAIN dep_map[name] \subseteq Range(seen)

\* a complete root with two dependent sources, both expanded
C34_Witness ==
    /\ pc = "next_root"
    /\ name # ""
    /\ name \notin Range(incomplete)
    /\ Cardinality(DOMAIN dep_map[name] \ {name}) >= 2
    /\ Len(seen) >= 3

\* C35: no package is recorded as a dependent of itself or of its own root:
\* no expanded name is a member of its own dep_chain entry, and dep_map[name]
\* never has name among its dependent keys.
C35_NoSelfDependent ==
    /\ \A c \in DOMAIN dep_chain : c \notin dep_chain[c]
    /\ \A r \in DOMAIN dep_map : r \notin DOMAIN dep_map[r]

\* C36: for one call on the same snapshot, roots and max_deps, the walker
\* of find_unblocked_orphans.py (as the one of deep_checker.py) leaves the
\* dep_map, incomplete, dep_chain and not_in_repo that the inline loop of
\* scratch.py leaves.
C36_SameAsScratch ==
    WalkOver =>
        LET out == scratch_recursive_deps(dnfquery, bin_by_src, src_by_bin,
                                          packages, max_deps)
        IN  /\ dep_map = out.dep_map
            /\ incomplete = out.incomplete
            /\ dep_chain = out.dep_chain
            /\ not_in_repo = out.not_in_repo

\* C37: the pool has two workers for the lifetime of a DepChecker: once a
\* call has started its threads, and after any number of calls, exactly
\* two pagure_worker threads consume the queue.
C37_PoolOfTwo ==
    (pc # "start" \/ calls > 1) =>
        Cardinality({w \in AllWorkers : w <= threads}) = 2
====
